---------------------------- MODULE Spec2Model ----------------------------
(***************************************************************************)
(* Model of the FIDAS uploader: the polling loop of main() in              *)
(* upload_to_citiesair.py with its helpers, and the watermark store of     *)
(* metadata_table.py.                                                      *)
(*                                                                         *)
(* Timestamps are ticks 1..MaxTs; tick k stands for the naive datetime     *)
(* 2024-01-01 00:00:00 plus (k-1)*30 seconds, so tick 1 = 00:00:00,        *)
(* tick 2 = 00:00:30, tick 3 = 00:01:00.  NoTs stands for Python's None.   *)
(* Filenames are 1..NumNames, numbered in alphabetical order, so that      *)
(* comparing two names is comparing their numbers; the instrument writes   *)
(* the files 1..NumFiles.                                                  *)
(***************************************************************************)
EXTENDS Integers, Sequences, FiniteSets, TLC

\* ------------------------------------------------------------------ bounds
MaxTs == 3
NumFiles == 2
MaxRows == 2
MaxEnv == 3
MaxList == 3
NumNames == 3
MaxCalls == 3
MaxMilli == 12

\* ------------------------------------------------------------- value sets
NoTs == 0
Ts == 1..MaxTs
OptTs == {NoTs} \cup Ts
Names == 1..NumNames
Files == 1..NumFiles

\* a directory entry that does not end in ".txt"
OtherEntry == 0
IsTxt(name) == name \in Names

VARIABLES
    remote,            \* the FTP server: file -> [present, mtime, rows]
    envSteps,          \* number of changes made to the server so far
    pc,                \* position of main()
    ftp,               \* TRUE while the cycle's FTP connection is open
    raising,           \* TRUE while an exception propagates out of the try block
    mlsd,              \* the directory listing the server sent this cycle
    remote_files,      \* result of list_remote_txt_files_with_mtime
    db,                \* meta table: value of key 'last_timestamp' (<<>> = no row)
    last_timestamp,    \* main()'s local variable
    files_to_process,  \* main()'s local variable
    idx,               \* position of the for loop in files_to_process
    fetched,           \* [file, status, rows, wm]: what the current iteration works on
    measurements,      \* batch built by process_raw_file
    newest_timestamp,  \* second component of process_raw_file's result
    response,          \* outcome of requests.post
    ok,                \* result of send_measurements_through_api
    delivered,         \* history: <<file, ts>> of every row in an accepted batch
    reads,             \* history: calls of get_last_timestamp in this cycle
    preCycle,          \* history: watermark stored when the cycle began
    lastAccepted,      \* history: newest timestamp of the batch accepted last in this cycle
    thisCycle,         \* history: selection and failed deliveries of this cycle
    lastCycle,         \* history: the same for the previous cycle
    unreleased,        \* history: a connected client was dropped without quit() or close()
    calls,             \* history: the calls made on the watermark store
    row,               \* a row of the DataFrame (df.iterrows)
    record             \* the measurement dict built from the row

vars == <<remote, envSteps, pc, ftp, raising, mlsd, remote_files, db,
          last_timestamp, files_to_process, idx, fetched, measurements,
          newest_timestamp, response, ok, delivered, reads, preCycle,
          lastAccepted, thisCycle, lastCycle, unreleased, calls, row, record>>

\* ---------------------------------------------------------------- helpers
Range(s) == {s[i] : i \in DOMAIN s}

RECURSIVE SeqsUpTo(_, _)
SeqsUpTo(S, n) ==
    IF n = 0 THEN {<<>>}
    ELSE LET shorter == SeqsUpTo(S, n - 1)
         IN  shorter \cup {Append(s, x) : s \in {t \in shorter : Len(t) = n - 1}, x \in S}

RECURSIVE AscendingSeq(_)
AscendingSeq(S) ==
    IF S = {} THEN <<>>
    ELSE LET m == CHOOSE x \in S : \A y \in S : x <= y
         IN  <<m>> \o AscendingSeq(S \ {m})

\* ------------------------------------------------ metadata_table.py: store
\* strftime("%Y%m%d%H%M%S") of the datetime a tick stands for: 14 digits
strftime(t) ==
    LET secs == (t - 1) * 30
        mm   == secs \div 60
        ss   == secs % 60
    IN  <<2, 0, 2, 4, 0, 1, 0, 1, 0, 0,
          mm \div 10, mm % 10, ss \div 10, ss % 10>>

\* strptime(ts_str, "%Y%m%d%H%M%S"): the tick, or NoTs where it raises
strptime(s) ==
    IF Len(s) # 14 \/ SubSeq(s, 1, 10) # <<2, 0, 2, 4, 0, 1, 0, 1, 0, 0>> THEN NoTs
    ELSE LET mm == s[11] * 10 + s[12]
             ss == s[13] * 10 + s[14]
         IN  IF mm > 59 \/ ss > 59 \/ ss % 30 # 0 THEN NoTs
             ELSE mm * 2 + ss \div 30 + 1

\* get_last_timestamp: None when there is no row
get_last_timestamp(store) ==
    IF store = <<>> THEN NoTs ELSE strptime(store)

\* get_last_timestamp raises: strptime raised, and the handler's
\* LOGGER.warning raises NameError (metadata_table.py defines no LOGGER)
get_last_timestamp_raises(store) ==
    store # <<>> /\ strptime(store) = NoTs

\* a set that keeps the stored value when it is the newer one
set_last_timestamp_if_newer(store, timestamp) ==
    IF get_last_timestamp(store) > timestamp THEN store ELSE strftime(timestamp)

\* set_last_timestamp: INSERT OR REPLACE of the formatted value
set_last_timestamp(store, timestamp) == strftime(timestamp)

\* ------------------------------------------------------- listing, selection
\* sort key of list_remote_txt_files_with_mtime: (mtime or datetime.min, name)
ListingBefore(a, b) ==
    LET ka == IF a[2] = NoTs THEN 0 ELSE a[2]
        kb == IF b[2] = NoTs THEN 0 ELSE b[2]
    IN  ka < kb \/ (ka = kb /\ a[1] <= b[1])

\* keep the .txt entries of the MLSD response, sorted by the listing key
list_remote_txt_files_with_mtime(entries) ==
    SortSeq(SelectSeq(entries, LAMBDA e : IsTxt(e[1])), ListingBefore)

\* the selection with >= in place of >
select_files_to_process_inclusive(files, lt) ==
    LET keep(e) == e[2] # NoTs /\ (lt = NoTs \/ e[2] >= lt)
        kept == SelectSeq(files, keep)
        names == [i \in DOMAIN kept |-> kept[i][1]]
    IN  SortSeq(names, LAMBDA a, b : a <= b)

\* the selection without the final files_to_process.sort()
select_files_to_process_unsorted(files, lt) ==
    LET keep(e) == e[2] # NoTs /\ (lt = NoTs \/ e[2] > lt)
        kept == SelectSeq(files, keep)
    IN  [i \in DOMAIN kept |-> kept[i][1]]

\* the loop of select_files_to_process followed by files_to_process.sort()
select_files_to_process(files, lt) ==
    LET keep(e) == e[2] # NoTs /\ (lt = NoTs \/ e[2] > lt)
        kept == SelectSeq(files, keep)
        names == [i \in DOMAIN kept |-> kept[i][1]]
    IN  SortSeq(names, LAMBDA a, b : a <= b)

\* ------------------------------------------------------------- extraction
None == [measurements |-> <<>>, newest |-> NoTs]

\* the row filter left out: every row of the file is kept
NewRowsUnfiltered(rows, lt) == rows

\* the row filter with >= in place of >
NewRowsInclusive(rows, lt) ==
    IF lt # NoTs THEN SelectSeq(rows, LAMBDA t : t >= lt) ELSE rows

\* df = df[df["ts"] > last_timestamp], applied only when last_timestamp is set
NewRows(rows, lt) ==
    IF lt # NoTs THEN SelectSeq(rows, LAMBDA t : t > lt) ELSE rows

\* df.sort_values("ts")
sort_values(rows) == SortSeq(rows, LAMBDA a, b : a <= b)

\* process_raw_file on the bytes a RETR returned (status says how far
\* retrieval and parsing got); None, or the batch and its newest timestamp
process_raw_file(status, rows, lt) ==
    IF status # "ok" THEN None
    ELSE IF rows = <<>> THEN None
    ELSE LET df == NewRows(rows, lt)
         IN  IF df = <<>> THEN None
             ELSE LET sorted == sort_values(df)
                  IN  [measurements |-> sorted, newest |-> sorted[Len(sorted)]]

Statuses == {"ok", "retr_error", "parse_error", "missing_column", "date_error"}

\* --------------------------------------------------------------- delivery
StatusCodes == {200, 201, 207, 400, 500}
Responses == {[exc |-> TRUE, status |-> 0]} \cup
             {[exc |-> FALSE, status |-> s] : s \in StatusCodes}
NoResponse == [exc |-> FALSE, status |-> 0]

\* a delivery that takes every 2xx status for success
send_accepting_2xx(r) ==
    IF r.exc THEN FALSE
    ELSE IF r.status < 200 \/ r.status > 299 THEN FALSE
    ELSE TRUE

\* requests.post, then the test of response.status_code
send_measurements_through_api(r) ==
    IF r.exc THEN FALSE
    ELSE IF r.status \notin {200, 207} THEN FALSE
    ELSE TRUE


\* ----------------------------------------------------------- initial state
NoFile == [present |-> FALSE, mtime |-> NoTs, rows |-> <<>>]
NoFetch == [file |-> 0, status |-> "none", rows |-> <<>>, wm |-> NoTs]
NoFail == [set |-> FALSE, wext |-> NoTs, batch |-> <<>>]
NoRow == <<>>
NoRecord == <<>>
EmptyCycle == [listed |-> FALSE,
               files  |-> [f \in Names |-> NoFile],
               wsel   |-> NoTs,
               sel    |-> <<>>,
               fails  |-> [f \in Names |-> NoFail]]

\* main() after setup_metadata_table on a fresh database, empty server
Init ==
    /\ remote = [f \in Names |-> NoFile]
    /\ envSteps = 0
    /\ pc = "connect"
    /\ ftp = FALSE
    /\ raising = FALSE
    /\ mlsd = <<>>
    /\ remote_files = <<>>
    /\ db = <<>>
    /\ last_timestamp = NoTs
    /\ files_to_process = <<>>
    /\ idx = 1
    /\ fetched = NoFetch
    /\ measurements = <<>>
    /\ newest_timestamp = NoTs
    /\ response = NoResponse
    /\ ok = FALSE
    /\ delivered = {}
    /\ reads = 0
    /\ preCycle = NoTs
    /\ lastAccepted = NoTs
    /\ thisCycle = EmptyCycle
    /\ lastCycle = EmptyCycle
    /\ unreleased = FALSE
    /\ calls = <<>>
    /\ row = NoRow
    /\ record = NoRecord

envVars == <<remote, envSteps>>
loopVars == <<fetched, measurements, newest_timestamp, response, ok>>
histVars == <<delivered, reads, preCycle, lastAccepted, thisCycle, lastCycle>>
auxVars == <<unreleased, calls, row, record>>

\* ------------------------------------------------------------ environment
\* The instrument appends a row to a file; the server stamps the file
\* with a modify fact m (NoTs: the server reports none for it).
EnvAppend ==
    /\ pc = "sleep"
    /\ UNCHANGED auxVars
    /\ envSteps < MaxEnv
    /\ \E f \in Files, t \in Ts, m \in OptTs :
          /\ Len(remote[f].rows) < MaxRows
          /\ remote' = [remote EXCEPT ![f] =
                [present |-> TRUE, mtime |-> m, rows |-> Append(@.rows, t)]]
    /\ envSteps' = envSteps + 1
    /\ UNCHANGED <<pc, ftp, raising, mlsd, remote_files, db, last_timestamp,
                   files_to_process, idx>>
    /\ UNCHANGED loopVars
    /\ UNCHANGED histVars

\* A file is created empty, or its modify fact changes without new rows.
EnvTouch ==
    /\ pc = "sleep"
    /\ UNCHANGED auxVars
    /\ envSteps < MaxEnv
    /\ \E f \in Files, m \in OptTs :
          /\ remote[f].mtime # m \/ ~remote[f].present
          /\ remote' = [remote EXCEPT ![f] =
                [present |-> TRUE, mtime |-> m, rows |-> @.rows]]
    /\ envSteps' = envSteps + 1
    /\ UNCHANGED <<pc, ftp, raising, mlsd, remote_files, db, last_timestamp,
                   files_to_process, idx>>
    /\ UNCHANGED loopVars
    /\ UNCHANGED histVars

\* the MLSD response for the server's present files
MlsdOf(r) ==
    LET names == AscendingSeq({f \in Names : r[f].present})
    IN  [i \in DOMAIN names |-> <<names[i], r[names[i]].mtime>>]

\* ----------------------------------------------------------------- main()
\* create_ftp_client returned a client
ConnectOk ==
    /\ pc = "connect"
    /\ UNCHANGED auxVars
    /\ ftp' = TRUE
    /\ pc' = "list"
    /\ UNCHANGED <<raising, mlsd, remote_files, db, last_timestamp,
                   files_to_process, idx>>
    /\ UNCHANGED envVars
    /\ UNCHANGED loopVars
    /\ UNCHANGED histVars

\* create_ftp_client returned None: the cycle is skipped.  When connect()
\* or login() raised after the socket was opened, the client is dropped
\* without quit() or close().
ConnectFail ==
    /\ pc = "connect"
    /\ \E opened \in BOOLEAN : unreleased' = (unreleased \/ opened)
    /\ UNCHANGED <<calls, row, record>>
    /\ pc' = "sleep"
    /\ UNCHANGED <<ftp, raising, mlsd, remote_files, db, last_timestamp,
                   files_to_process, idx>>
    /\ UNCHANGED envVars
    /\ UNCHANGED loopVars
    /\ UNCHANGED histVars

\* remote_files = list_remote_txt_files_with_mtime(ftp)
ListOk ==
    /\ pc = "list"
    /\ UNCHANGED auxVars
    /\ mlsd' = MlsdOf(remote)
    /\ remote_files' = list_remote_txt_files_with_mtime(mlsd')
    /\ pc' = "get_last"
    /\ UNCHANGED <<ftp, raising, db, last_timestamp, files_to_process, idx>>
    /\ UNCHANGED envVars
    /\ UNCHANGED loopVars
    /\ UNCHANGED histVars

\* ftp.mlsd() raises: evaluating "except error_perm" raises NameError
\* (the name is not imported), which leaves the try block of main()
ListRaise ==
    /\ pc = "list"
    /\ UNCHANGED auxVars
    /\ raising' = TRUE
    /\ pc' = "quit"
    /\ UNCHANGED <<ftp, mlsd, remote_files, db, last_timestamp,
                   files_to_process, idx>>
    /\ UNCHANGED envVars
    /\ UNCHANGED loopVars
    /\ UNCHANGED histVars

\* last_timestamp = get_last_timestamp(DB_PATH)
GetLast ==
    /\ pc = "get_last"
    /\ UNCHANGED auxVars
    /\ reads' = reads + 1
    /\ IF get_last_timestamp_raises(db)
          THEN /\ raising' = TRUE
               /\ pc' = "quit"
               /\ UNCHANGED last_timestamp
          ELSE /\ last_timestamp' = get_last_timestamp(db)
               /\ pc' = "select"
               /\ UNCHANGED raising
    /\ UNCHANGED <<ftp, mlsd, remote_files, db, files_to_process, idx>>
    /\ UNCHANGED envVars
    /\ UNCHANGED loopVars
    /\ UNCHANGED <<delivered, preCycle, lastAccepted, thisCycle, lastCycle>>

\* a selection that leaves out the files whose delivery failed last cycle
select_skipping_failed(files, lt) ==
    SelectSeq(select_files_to_process(files, lt),
              LAMBDA n : ~lastCycle.fails[n].set)

\* the call of select_files_to_process in main()
selected(files, lt) == select_files_to_process(files, lt)

\* files_to_process = select_files_to_process(remote_files, last_timestamp)
Select ==
    /\ pc = "select"
    /\ UNCHANGED auxVars
    /\ files_to_process' = selected(remote_files, last_timestamp)
    /\ idx' = 1
    /\ thisCycle' = [listed |-> TRUE,
                     files  |-> remote,
                     wsel   |-> last_timestamp,
                     sel    |-> files_to_process',
                     fails  |-> [f \in Names |-> NoFail]]
    /\ pc' = "loop"
    /\ UNCHANGED <<ftp, raising, mlsd, remote_files, db, last_timestamp>>
    /\ UNCHANGED envVars
    /\ UNCHANGED loopVars
    /\ UNCHANGED <<delivered, reads, preCycle, lastAccepted, lastCycle>>

\* the iteration without "if not result: continue": the delivery is called
\* whatever process_raw_file returned
ProcessRawFileNoCheck ==
    /\ pc = "loop"
    /\ UNCHANGED auxVars
    /\ idx <= Len(files_to_process)
    /\ \E st \in Statuses :
          LET f      == files_to_process[idx]
              rows   == remote[f].rows
              result == process_raw_file(st, rows, last_timestamp)
          IN  /\ fetched' = [file |-> f, status |-> st, rows |-> rows,
                             wm |-> last_timestamp]
              /\ measurements' = result.measurements
              /\ newest_timestamp' = result.newest
              /\ idx' = idx
              /\ pc' = "send"
    /\ UNCHANGED <<ftp, raising, mlsd, remote_files, db, last_timestamp,
                   files_to_process, response, ok>>
    /\ UNCHANGED envVars
    /\ UNCHANGED histVars

\* one iteration up to "if not result: continue": RETR, parse, filter, build
ProcessRawFile ==
    /\ pc = "loop"
    /\ UNCHANGED auxVars
    /\ idx <= Len(files_to_process)
    /\ \E st \in Statuses :
          LET f      == files_to_process[idx]
              rows   == remote[f].rows
              result == process_raw_file(st, rows, last_timestamp)
          IN  /\ fetched' = [file |-> f, status |-> st, rows |-> rows,
                             wm |-> last_timestamp]
              /\ measurements' = result.measurements
              /\ newest_timestamp' = result.newest
              /\ IF result = None
                    THEN /\ idx' = idx + 1
                         /\ pc' = "loop"
                    ELSE /\ idx' = idx
                         /\ pc' = "send"
    /\ UNCHANGED <<ftp, raising, mlsd, remote_files, db, last_timestamp,
                   files_to_process, response, ok>>
    /\ UNCHANGED envVars
    /\ UNCHANGED histVars

\* ok = send_measurements_through_api(measurements)
Send ==
    /\ pc = "send"
    /\ UNCHANGED auxVars
    /\ \E r \in Responses :
          /\ response' = r
          /\ ok' = send_measurements_through_api(r)
    /\ delivered' = IF ok'
                       THEN delivered \cup
                            {<<fetched.file, t>> : t \in Range(measurements)}
                       ELSE delivered
    /\ lastAccepted' = IF ok' THEN newest_timestamp ELSE lastAccepted
    /\ pc' = "sent"
    /\ UNCHANGED <<ftp, raising, mlsd, remote_files, db, last_timestamp,
                   files_to_process, idx, fetched, measurements,
                   newest_timestamp>>
    /\ UNCHANGED envVars
    /\ UNCHANGED <<reads, preCycle, thisCycle, lastCycle>>

\* The locals of one loop iteration are dead once the iteration ends (each
\* is assigned again before it is read): they go back to their initial values.
EndIteration ==
    /\ fetched' = NoFetch
    /\ measurements' = <<>>
    /\ newest_timestamp' = NoTs
    /\ response' = NoResponse
    /\ ok' = FALSE

\* "if not ok: continue" left out: a rejected batch advances the watermark
SkipNotOkFallThrough ==
    /\ pc = "sent"
    /\ UNCHANGED auxVars
    /\ ~ok
    /\ db' = set_last_timestamp(db, newest_timestamp)
    /\ last_timestamp' = newest_timestamp
    /\ thisCycle' = [thisCycle EXCEPT !.fails[fetched.file] =
                        [set |-> TRUE, wext |-> fetched.wm, batch |-> measurements]]
    /\ idx' = idx + 1
    /\ pc' = "loop"
    /\ EndIteration
    /\ UNCHANGED <<ftp, raising, mlsd, remote_files, files_to_process>>
    /\ UNCHANGED envVars
    /\ UNCHANGED <<delivered, reads, preCycle, lastAccepted, lastCycle>>

\* "if not ok: break": a failed delivery ends the loop
SkipNotOkBreak ==
    /\ pc = "sent"
    /\ UNCHANGED auxVars
    /\ ~ok
    /\ thisCycle' = [thisCycle EXCEPT !.fails[fetched.file] =
                        [set |-> TRUE, wext |-> fetched.wm, batch |-> measurements]]
    /\ idx' = idx
    /\ pc' = "quit"
    /\ EndIteration
    /\ UNCHANGED <<ftp, raising, mlsd, remote_files, db, last_timestamp,
                   files_to_process>>
    /\ UNCHANGED envVars
    /\ UNCHANGED <<delivered, reads, preCycle, lastAccepted, lastCycle>>

\* "if not ok: continue"
SkipNotOk ==
    /\ pc = "sent"
    /\ UNCHANGED auxVars
    /\ ~ok
    /\ thisCycle' = [thisCycle EXCEPT !.fails[fetched.file] =
                        [set |-> TRUE, wext |-> fetched.wm, batch |-> measurements]]
    /\ idx' = idx + 1
    /\ pc' = "loop"
    /\ EndIteration
    /\ UNCHANGED <<ftp, raising, mlsd, remote_files, db, last_timestamp,
                   files_to_process>>
    /\ UNCHANGED envVars
    /\ UNCHANGED <<delivered, reads, preCycle, lastAccepted, lastCycle>>

\* the iteration's end without the call of set_last_timestamp
AdvanceInMemoryOnly ==
    /\ pc = "sent"
    /\ UNCHANGED auxVars
    /\ ok
    /\ last_timestamp' = newest_timestamp
    /\ idx' = idx + 1
    /\ pc' = "loop"
    /\ EndIteration
    /\ UNCHANGED <<ftp, raising, mlsd, remote_files, db, files_to_process>>
    /\ UNCHANGED envVars
    /\ UNCHANGED histVars

\* the iteration's end without the assignment to the local last_timestamp
AdvanceStoreOnly ==
    /\ pc = "sent"
    /\ UNCHANGED auxVars
    /\ ok
    /\ db' = set_last_timestamp(db, newest_timestamp)
    /\ idx' = idx + 1
    /\ pc' = "loop"
    /\ EndIteration
    /\ UNCHANGED <<ftp, raising, mlsd, remote_files, last_timestamp,
                   files_to_process>>
    /\ UNCHANGED envVars
    /\ UNCHANGED histVars

\* the advance with the batch's oldest timestamp (iloc[0]) for its newest
AdvanceToOldest ==
    /\ pc = "sent"
    /\ UNCHANGED auxVars
    /\ ok
    /\ db' = set_last_timestamp(db, measurements[1])
    /\ last_timestamp' = measurements[1]
    /\ idx' = idx + 1
    /\ pc' = "loop"
    /\ EndIteration
    /\ UNCHANGED <<ftp, raising, mlsd, remote_files, files_to_process>>
    /\ UNCHANGED envVars
    /\ UNCHANGED histVars

\* set_last_timestamp(DB_PATH, newest_timestamp); last_timestamp = newest_timestamp
Advance ==
    /\ pc = "sent"
    /\ UNCHANGED auxVars
    /\ ok
    /\ db' = set_last_timestamp(db, newest_timestamp)
    /\ last_timestamp' = newest_timestamp
    /\ idx' = idx + 1
    /\ pc' = "loop"
    /\ EndIteration
    /\ UNCHANGED <<ftp, raising, mlsd, remote_files, files_to_process>>
    /\ UNCHANGED envVars
    /\ UNCHANGED histVars

\* the for loop is exhausted: control reaches the finally clause
EndLoop ==
    /\ pc = "loop"
    /\ UNCHANGED auxVars
    /\ idx > Len(files_to_process)
    /\ pc' = "quit"
    /\ UNCHANGED <<ftp, raising, mlsd, remote_files, db, last_timestamp,
                   files_to_process, idx>>
    /\ UNCHANGED envVars
    /\ UNCHANGED loopVars
    /\ UNCHANGED histVars

\* finally: ftp.quit() (or ftp.close()); a propagating exception ends main().
\* The locals of the cycle are dead from here on and go back to their initial
\* values; the history of a cycle is kept for the next one only if a
\* delivery failed in it.
Quit ==
    /\ pc = "quit"
    /\ UNCHANGED auxVars
    /\ ftp' = FALSE
    /\ pc' = IF raising THEN "crashed" ELSE "sleep"
    /\ EndIteration
    /\ mlsd' = <<>>
    /\ remote_files' = <<>>
    /\ files_to_process' = <<>>
    /\ idx' = 1
    /\ thisCycle' = IF \E f \in Names : thisCycle.fails[f].set
                       THEN thisCycle ELSE EmptyCycle
    /\ lastAccepted' = NoTs
    /\ UNCHANGED <<raising, db, last_timestamp>>
    /\ UNCHANGED envVars
    /\ UNCHANGED <<delivered, reads, preCycle, lastCycle>>

\* sleep_until_next_run returns and the while loop starts the next cycle
Sleep ==
    /\ pc = "sleep"
    /\ UNCHANGED auxVars
    /\ pc' = "connect"
    /\ reads' = 0
    /\ preCycle' = get_last_timestamp(db)
    /\ lastCycle' = thisCycle
    /\ thisCycle' = EmptyCycle
    /\ UNCHANGED <<ftp, raising, mlsd, remote_files, db, last_timestamp,
                   files_to_process, idx, delivered, lastAccepted>>
    /\ UNCHANGED envVars
    /\ UNCHANGED loopVars

Next ==
    \/ EnvAppend
    \/ EnvTouch
    \/ ConnectOk
    \/ ConnectFail
    \/ ListOk
    \/ ListRaise
    \/ GetLast
    \/ Select
    \/ ProcessRawFile
    \/ Send
    \/ SkipNotOk
    \/ Advance
    \/ EndLoop
    \/ Quit
    \/ Sleep

Spec == Init /\ [][Next]_vars

\* main() is a sequential loop that is never suspended: whenever it has a
\* next step (a call returns, the sleep ends) it takes it.  The instrument
\* and the server owe nothing.
Program ==
    \/ ConnectOk
    \/ ConnectFail
    \/ ListOk
    \/ ListRaise
    \/ GetLast
    \/ Select
    \/ ProcessRawFile
    \/ Send
    \/ SkipNotOk
    \/ Advance
    \/ EndLoop
    \/ Quit
    \/ Sleep

\* the program started on a server whose files no longer change: each file
\* is absent, or has any rows at the oldest and the newest timestamp and a
\* modify fact that is missing or the newest timestamp
FileStates ==
    {NoFile} \cup
    {[present |-> TRUE, mtime |-> mt, rows |-> rs] :
        mt \in {NoTs, MaxTs}, rs \in SeqsUpTo({1, MaxTs}, MaxRows)}

InitRun ==
    /\ remote \in {r \in [Names -> FileStates] :
                       \A f \in Names \ Files : r[f] = NoFile}
    /\ envSteps = 0
    /\ pc = "connect"
    /\ ftp = FALSE
    /\ raising = FALSE
    /\ mlsd = <<>>
    /\ remote_files = <<>>
    /\ db = <<>>
    /\ last_timestamp = NoTs
    /\ files_to_process = <<>>
    /\ idx = 1
    /\ fetched = NoFetch
    /\ measurements = <<>>
    /\ newest_timestamp = NoTs
    /\ response = NoResponse
    /\ ok = FALSE
    /\ delivered = {}
    /\ reads = 0
    /\ preCycle = NoTs
    /\ lastAccepted = NoTs
    /\ thisCycle = EmptyCycle
    /\ lastCycle = EmptyCycle
    /\ unreleased = FALSE
    /\ calls = <<>>
    /\ row = NoRow
    /\ record = NoRecord

FairRun == InitRun /\ [][Program]_vars /\ WF_vars(Program)


\* ================================================================ claims
Count(s, x) == Cardinality({i \in DOMAIN s : s[i] = x})
IsMaxOf(t, s) == t \in Range(s) /\ \A u \in Range(s) : u <= t
Ascending(s) == \A i, j \in DOMAIN s : i < j => s[i] <= s[j]
StrictlyAscending(s) == \A i, j \in DOMAIN s : i < j => s[i] < s[j]
Stored == get_last_timestamp(db)

\* C1: the persisted watermark never decreases: no step removes or spoils
\* the stored value, and every value written is greater than or equal to
\* the value stored before the write.
C1_Monotone ==
    [][/\ (db # <<>> => db' # <<>>)
       /\ get_last_timestamp(db') >= get_last_timestamp(db)]_vars

\* C1 witness: a watermark that was already set when the cycle began has
\* been written again, with a greater value, in this cycle.
C1_Witness ==
    /\ pc = "loop"
    /\ preCycle # NoTs
    /\ Stored > preCycle

\* C2: whenever the persisted or the in-memory watermark changes, the step
\* is the one after an accepted delivery of the current file's batch, the
\* new value is that batch's newest (maximum) timestamp, and afterwards the
\* in-memory and the persisted watermark hold the same value.
C2_AdvanceOnlyAfterAccept ==
    [][(db' # db \/ last_timestamp' # last_timestamp) =>
          /\ pc = "sent"
          /\ ok
          /\ send_measurements_through_api(response)
          /\ fetched.file = files_to_process[idx]
          /\ <<fetched.file, newest_timestamp>> \in delivered
          /\ IsMaxOf(newest_timestamp, measurements)
          /\ get_last_timestamp(db') = newest_timestamp
          /\ last_timestamp' = newest_timestamp]_vars

\* C2 witness: the first advance of a run has happened in this cycle; both
\* copies of the watermark hold the accepted batch's newest timestamp.
C2_Witness ==
    /\ pc = "loop"
    /\ preCycle = NoTs
    /\ lastAccepted # NoTs
    /\ Stored = lastAccepted
    /\ last_timestamp = lastAccepted

\* C3: every row of every listed file with a known modification time whose
\* timestamp is less than or equal to the persisted watermark has been part
\* of an accepted batch.
C3_AtLeastOnce ==
    \A f \in Names :
        (remote[f].present /\ remote[f].mtime # NoTs) =>
            \A i \in DOMAIN remote[f].rows :
                remote[f].rows[i] <= Stored => <<f, remote[f].rows[i]>> \in delivered

\* C4: a file whose delivery failed in the previous cycle and that is
\* unchanged on the server is selected again in this cycle, and its
\* extraction yields again the batch that was not sent.
C4_RetryAfterFailure ==
    \A f \in Names :
        (/\ lastCycle.fails[f].set
         /\ thisCycle.listed
         /\ remote[f] = lastCycle.files[f]) =>
            /\ f \in Range(thisCycle.sel)
            /\ (pc \in {"send", "sent"} /\ fetched.file = f) =>
                   measurements = lastCycle.fails[f].batch

\* C5 as stated: when delivery of the current file's batch has failed, both
\* copies of the watermark hold the value stored when the cycle began, not
\* the batch's newest timestamp T.
C5_PreCycleValue ==
    (pc = "sent" /\ ~ok) =>
        /\ Stored = preCycle
        /\ last_timestamp = preCycle
        /\ Stored # newest_timestamp

\* C5 amended: when delivery of the current file's batch has failed, both
\* copies of the watermark hold the value they had when the handling of the
\* file began (never less than the pre-cycle value, and not T), and the step
\* that ends the iteration changes neither of them.
C5_WithheldOnFailure ==
    /\ [](pc = "sent" /\ ~ok =>
            /\ Stored = fetched.wm
            /\ last_timestamp = fetched.wm
            /\ Stored >= preCycle
            /\ Stored # newest_timestamp
            /\ newest_timestamp > Stored)
    /\ [][(pc = "sent" /\ ~ok) =>
            (db' = db /\ last_timestamp' = last_timestamp)]_vars

\* C5 witness: a delivery failed in a cycle in which an earlier file had
\* been accepted; the store holds that earlier advance, not the pre-cycle
\* value and not the failed batch's newest timestamp.
C5_Witness ==
    /\ pc = "loop"
    /\ \E f \in Names :
          /\ thisCycle.fails[f].set
          /\ Stored = thisCycle.fails[f].wext
          /\ Stored # preCycle
          /\ \A t \in Range(thisCycle.fails[f].batch) : t > Stored

\* C6: the batch that extraction produces holds exactly the rows of the file
\* whose timestamp is strictly greater than the watermark current at
\* extraction time (all rows when it is absent), one record per row, in
\* ascending order of timestamp, and newest_timestamp is their maximum; for
\* rows at 00:00:00 and 00:01:00 (ticks 1 and 3) an unset watermark gives
\* two records and a watermark of 00:00:30 (tick 2) exactly one, and the
\* watermark is 00:01:00 after the accepted delivery.
C6_RowFiltering ==
    /\ [](pc \in {"send", "sent"} =>
            /\ fetched.status = "ok"
            /\ fetched.rows = remote[fetched.file].rows
            /\ \A t \in Ts :
                  Count(measurements, t) =
                      IF fetched.wm = NoTs \/ t > fetched.wm
                         THEN Count(fetched.rows, t) ELSE 0
            /\ Ascending(measurements)
            /\ IsMaxOf(newest_timestamp, measurements)
            /\ (Len(fetched.rows) = 2 /\ Range(fetched.rows) = {1, 3}) =>
                  /\ fetched.wm = NoTs => measurements = <<1, 3>>
                  /\ fetched.wm = 2 => measurements = <<3>>)
    /\ [][pc = "loop" /\ pc' \in {"loop", "send"} =>
            fetched'.wm = last_timestamp]_vars
    /\ [][(/\ pc = "sent" /\ ok
           /\ Len(fetched.rows) = 2 /\ Range(fetched.rows) = {1, 3}
           /\ fetched.wm \in {NoTs, 2}) =>
            (get_last_timestamp(db') = 3 /\ last_timestamp' = 3)]_vars

\* C6 witness: with the watermark at 00:00:30, the file with rows at
\* 00:01:00 and 00:00:00 gave the single record of 00:01:00, and it was
\* accepted.
C6_Witness ==
    /\ pc = "sent"
    /\ ok
    /\ fetched.wm = 2
    /\ fetched.rows = <<3, 1>>
    /\ measurements = <<3>>

\* C9: get_last_timestamp is called once per cycle, and the watermark a
\* file's rows are filtered with is the value read at the start of the
\* cycle if no earlier file of the cycle was accepted, else the newest
\* timestamp of the batch accepted last.
C9_IntraCyclePropagation ==
    /\ reads <= 1
    /\ (pc \in {"select", "loop", "send", "sent", "quit"} /\ ~raising) => reads = 1
    /\ thisCycle.listed => thisCycle.wsel = preCycle
    /\ (pc = "send" \/ (pc = "loop" /\ fetched # NoFetch)) =>
          fetched.wm = IF lastAccepted = NoTs THEN thisCycle.wsel ELSE lastAccepted

\* C9 witness: the second file of a cycle is filtered with the value the
\* first file's accepted batch advanced the watermark to.
C9_Witness ==
    /\ pc = "send"
    /\ idx = 2
    /\ lastAccepted # NoTs
    /\ fetched.wm = lastAccepted
    /\ fetched.wm # thisCycle.wsel

C11_ListingFailureRetried ==
    /\ [](pc # "crashed")
    /\ [][(pc = "connect" /\ pc' # "list") =>
            (pc' = "sleep" /\ UNCHANGED <<db, last_timestamp, delivered>>)]_vars
    /\ [][(pc = "list" /\ pc' # "get_last") =>
            (/\ pc' \in {"quit", "sleep"}
             /\ ~raising'
             /\ UNCHANGED <<db, last_timestamp, delivered>>)]_vars

\* C12: a file that ends in a fetch failure, a parse error, a missing
\* column, an unparseable timestamp, nothing new or a failed delivery leaves
\* both copies of the watermark unchanged and moves the loop to the next
\* selected file; the loop is left only when the list is exhausted, and
\* every cycle that entered the loop reaches the release of the connection,
\* the sleep and the start of a new cycle.
C12_PerFileErrorsNonFatal ==
    /\ [][((pc = "loop" /\ pc' = "loop") \/ (pc = "sent" /\ ~ok)) =>
            (/\ UNCHANGED <<db, last_timestamp, files_to_process, raising>>
             /\ idx' = idx + 1
             /\ pc' = "loop")]_vars
    /\ [][(pc = "loop" /\ idx <= Len(files_to_process)) =>
            (fetched'.file = files_to_process[idx] /\ pc' \in {"loop", "send"})]_vars
    /\ [][(pc \in {"loop", "send", "sent"} /\ pc' = "quit") =>
            (idx = Len(files_to_process) + 1 /\ ~raising')]_vars
    /\ ((pc \in {"loop", "send", "sent"}) ~> (pc = "quit" /\ ftp))
    /\ ((pc = "quit" /\ ~raising) ~> (pc = "sleep" /\ ~ftp))
    /\ ((pc = "sleep") ~> (pc = "connect"))

\* C12 witness: the delivery of the first selected file failed, a later
\* file of the same cycle was extracted with the watermark unchanged, and
\* the loop came to its end.
C12_Witness ==
    /\ pc = "quit"
    /\ ~raising
    /\ Len(files_to_process) = 2
    /\ thisCycle.fails[files_to_process[1]].set
    /\ Stored = preCycle
    /\ idx = 3

\* C14: the connection established in a cycle is open while the cycle lists
\* and fetches with it, and when the cycle's sleep begins (also after a
\* failed login, a failed listing or an exception) every connection opened
\* in the cycle has been released by quit() or close(); none is open across
\* cycles.
C14_ConnectionReleased ==
    /\ pc \in {"list", "get_last", "select", "loop", "send", "sent"} => ftp
    /\ pc \in {"sleep", "connect", "crashed"} => (~ftp /\ ~unreleased)

\* C16: the delivery step reports success exactly when the request raised
\* no transport error and the status is 200 or 207; the result is for the
\* whole batch: one request per batch, a failed one adds no row to the
\* accepted rows, an accepted one adds them all, and the step after the
\* result moves to the next file without a second request.
C16_DeliveryOutcome ==
    /\ [](pc = "sent" =>
            (ok <=> (~response.exc /\ response.status \in {200, 207})))
    /\ [][(pc = "send") =>
            (/\ pc' = "sent"
             /\ UNCHANGED <<measurements, fetched, idx>>
             /\ delivered' = IF ok'
                                THEN delivered \cup
                                     {<<fetched.file, t>> : t \in Range(measurements)}
                                ELSE delivered)]_vars
    /\ [][(pc = "sent") => (pc' = "loop" /\ idx' = idx + 1)]_vars

\* C16 witness: a batch of two records was answered with status 207 and is
\* reported as delivered.
C16_Witness ==
    /\ pc = "sent"
    /\ ~response.exc
    /\ response.status = 207
    /\ ok
    /\ Len(measurements) = 2

\* ------------------------------------------------- IEEE-754 double arithmetic
\* Naturals too large for a machine word are big-endian sequences of bits,
\* or of 16-bit limbs where arithmetic is done on them.
Zeros(k) == [i \in 1..k |-> 0]

AnyOne(b) == \E i \in DOMAIN b : b[i] = 1

\* b without its leading zeros
Strip(b) ==
    IF ~AnyOne(b) THEN <<>>
    ELSE LET first == CHOOSE i \in DOMAIN b :
                          b[i] = 1 /\ \A j \in 1..(i - 1) : b[j] = 0
         IN  SubSeq(b, first, Len(b))

\* the bits of a sequence of limbs
LimbsToBits(ls) ==
    Strip([i \in 1..(16 * Len(ls)) |->
              (ls[((i - 1) \div 16) + 1] \div (2^(15 - ((i - 1) % 16)))) % 2])

\* the limb whose 16 bits start at position k of b
LimbAt(b, k) ==
    32768 * b[k] + 16384 * b[k + 1] + 8192 * b[k + 2] + 4096 * b[k + 3]
    + 2048 * b[k + 4] + 1024 * b[k + 5] + 512 * b[k + 6] + 256 * b[k + 7]
    + 128 * b[k + 8] + 64 * b[k + 9] + 32 * b[k + 10] + 16 * b[k + 11]
    + 8 * b[k + 12] + 4 * b[k + 13] + 2 * b[k + 14] + b[k + 15]

\* the limbs of a sequence of at most 64 bits
BitsToLimbs(b) ==
    LET padded == Zeros(64 - Len(b)) \o b
    IN  [i \in 1..4 |-> LimbAt(padded, 16 * (i - 1) + 1)]

\* long division of limbs by the small number d: quotient limbs, remainder
RECURSIVE DivSmall(_, _, _, _, _)
DivSmall(ls, d, i, rem, q) ==
    IF i > Len(ls) THEN [q |-> q, r |-> rem]
    ELSE LET cur == 65536 * rem + ls[i]
         IN  DivSmall(ls, d, i + 1, cur % d, Append(q, cur \div d))

\* limbs times the small number k, from the least significant limb
RECURSIVE MulSmall(_, _, _, _)
MulSmall(ls, k, carry, low) ==
    IF ls = <<>> THEN <<carry>> \o low
    ELSE LET cur == ls[Len(ls)] * k + carry
         IN  MulSmall(SubSeq(ls, 1, Len(ls) - 1), k, cur \div 65536,
                      <<cur % 65536>> \o low)

\* b + 1: the trailing ones become zeros, the zero before them a one
Increment(b) ==
    IF \A i \in DOMAIN b : b[i] = 1 THEN <<1>> \o Zeros(Len(b))
    ELSE LET last == CHOOSE i \in DOMAIN b :
                         b[i] = 0 /\ \A j \in (i + 1)..Len(b) : b[j] = 1
         IN  [i \in DOMAIN b |-> IF i < last THEN b[i]
                                 ELSE IF i = last THEN 1 ELSE 0]

\* the double nearest to b * 2^x (ties to even), b of more than 53 bits,
\* sticky telling that bits beyond b were not zero: 53 bits m and exponent
\* e with value m * 2^e
RoundTo53(b, x, sticky) ==
    LET drop  == Len(b) - 53
        top   == SubSeq(b, 1, 53)
        guard == b[54]
        rest  == sticky \/ AnyOne(SubSeq(b, 55, Len(b)))
        up    == guard = 1 /\ (rest \/ top[53] = 1)
        mant  == IF up THEN Increment(top) ELSE top
    IN  IF Len(mant) = 54 THEN [m |-> SubSeq(mant, 1, 53), e |-> x + drop + 1]
        ELSE [m |-> mant, e |-> x + drop]

\* float("n/1000") for 0 < n < 2^31: the double nearest to the decimal,
\* from the quotient of n * 2^64 by 1000
DoubleOfMilli(n) ==
    LET d == DivSmall(<<n \div 65536, n % 65536, 0, 0, 0, 0>>, 1000, 1, 0, <<>>)
    IN  RoundTo53(LimbsToBits(d.q), -64, d.r # 0)

\* v * 100 in double arithmetic
Times100(v) ==
    RoundTo53(LimbsToBits(MulSmall(BitsToLimbs(v.m), 100, 0, <<>>)), v.e, FALSE)

\* the bits of the double v before the binary point, the bit after it, and
\* whether a later bit is set
Split(v) ==
    LET s == -v.e
        b == Zeros(IF s + 1 > 53 THEN s + 1 - 53 ELSE 0) \o v.m
    IN  [whole |-> SubSeq(b, 1, Len(b) - s),
         half  |-> b[Len(b) - s + 1],
         rest  |-> AnyOne(SubSeq(b, Len(b) - s + 2, Len(b)))]

\* the value of at most 31 bits
BitsValue(b) ==
    LET ls == BitsToLimbs(b) IN 65536 * ls[3] + ls[4]

\* round(v): the integer nearest to the double v, ties to even
RoundHalfEven(v) ==
    LET f   == Split(v)
        odd == f.whole # <<>> /\ f.whole[Len(f.whole)] = 1
    IN  BitsValue(f.whole) + IF f.half = 1 /\ (f.rest \/ odd) THEN 1 ELSE 0

\* int(v * 100), truncating
int_times_100(n) ==
    IF n = 0 THEN 0 ELSE BitsValue(Split(Times100(DoubleOfMilli(n))).whole)

\* lambda v: int(round(v * 100)) on the double read from the text n/1000
int_round_times_100(n) ==
    IF n = 0 THEN 0 ELSE RoundHalfEven(Times100(DoubleOfMilli(n)))

\* ------------------------------------------------- one row of the DataFrame
\* a cell of a numeric column: NaN, or the double read from a decimal text
\* with three decimals, named by its thousandths
NaN == <<"nan">>
Num(n) == <<"num", n>>

\* a JSON value: null, a number carried over, an integer
null == <<"null">>
JsonInt(k) == <<"int", k>>

pd_isna(x) == x = NaN

\* the transforms handed to clean: none, or lambda v: int(round(v * 100))
Transform(kind, v) ==
    IF kind = "scale" THEN JsonInt(int_round_times_100(v[2])) ELSE v

\* a clean that turns NaN into 0
clean_nan_as_zero(x, transform) ==
    IF pd_isna(x) THEN Transform(transform, Num(0))
    ELSE IF transform # "none" THEN Transform(transform, x) ELSE x

\* clean(x, transform=None)
clean(x, transform) ==
    IF pd_isna(x) THEN null
    ELSE IF transform # "none" THEN Transform(transform, x) ELSE x

\* the cells a numeric column may hold, and those of the pressure column:
\* k/1000 and 10 + k/1000 for k up to MaxMilli
FieldValues == {NaN, Num(0), Num(21500)}
PressureValues ==
    {NaN} \cup {Num(k) : k \in 0..MaxMilli} \cup {Num(10000 + k) : k \in 0..MaxMilli}

RawRows ==
    [ts : {1}, T : FieldValues, rH : FieldValues, p : PressureValues,
     PM1 : FieldValues, PM25 : FieldValues, PM10 : FieldValues]

InitRow ==
    /\ remote = [f \in Names |-> NoFile]
    /\ envSteps = 0
    /\ pc = "row"
    /\ ftp = FALSE
    /\ raising = FALSE
    /\ mlsd = <<>>
    /\ remote_files = <<>>
    /\ db = <<>>
    /\ last_timestamp = NoTs
    /\ files_to_process = <<>>
    /\ idx = 1
    /\ fetched = NoFetch
    /\ measurements = <<>>
    /\ newest_timestamp = NoTs
    /\ response = NoResponse
    /\ ok = FALSE
    /\ delivered = {}
    /\ reads = 0
    /\ preCycle = NoTs
    /\ lastAccepted = NoTs
    /\ thisCycle = EmptyCycle
    /\ lastCycle = EmptyCycle
    /\ unreleased = FALSE
    /\ calls = <<>>
    /\ row \in RawRows
    /\ record = NoRecord

\* the body of "for idx, row in df.iterrows()": the dict m
BuildMeasurement ==
    /\ pc = "row"
    /\ record = NoRecord
    /\ record' = [ts  |-> <<"ts", row.ts>>,
                  t   |-> clean(row.T, "none"),
                  h   |-> clean(row.rH, "none"),
                  p   |-> clean(row.p, "scale"),
                  p1  |-> clean(row.PM1, "none"),
                  p25 |-> clean(row.PM25, "none"),
                  p10 |-> clean(row.PM10, "none")]
    /\ UNCHANGED <<pc, ftp, raising, mlsd, remote_files, db, last_timestamp,
                   files_to_process, idx>>
    /\ UNCHANGED envVars
    /\ UNCHANGED loopVars
    /\ UNCHANGED histVars
    /\ UNCHANGED <<unreleased, calls, row>>

NextRow == BuildMeasurement

SpecRow == InitRow /\ [][NextRow]_vars

\* source column and record key of the six numeric fields
NumericFields ==
    {<<"T", "t">>, <<"rH", "h">>, <<"p", "p">>,
     <<"PM1", "p1">>, <<"PM25", "p25">>, <<"PM10", "p10">>}

\* k is an integer nearest to n/1000 times 100
NearestHundredths(k, n) == 10 * k - n <= 5 /\ n - 10 * k <= 5

\* C17: in the record built from a row, each of the six numeric keys is
\* present; a NaN cell gives null under its key, not zero; a cell with a
\* value gives that value, the pressure cell the scaled integer.
C17_NullMapping ==
    record # NoRecord =>
        /\ DOMAIN record = {"ts", "t", "h", "p", "p1", "p25", "p10"}
        /\ \A f \in NumericFields :
              /\ row[f[1]] = NaN =>
                    (/\ record[f[2]] = null
                     /\ record[f[2]] # Num(0)
                     /\ record[f[2]] # JsonInt(0))
              /\ (row[f[1]] # NaN /\ f[1] # "p") => record[f[2]] = row[f[1]]
              /\ (row[f[1]] # NaN /\ f[1] = "p") =>
                    (/\ record[f[2]][1] = "int"
                     /\ NearestHundredths(record[f[2]][2], row[f[1]][2]))

\* C17 witness: a row with NaN pressure and NaN PM1, and temperature 0,
\* gave null, null and 0.
C17_Witness ==
    /\ record # NoRecord
    /\ row.p = NaN /\ record.p = null
    /\ row.PM1 = NaN /\ record.p1 = null
    /\ row.T = Num(0) /\ record.t = Num(0)
    /\ row.rH = Num(21500) /\ record.h = Num(21500)

\* C18: a pressure cell with a value gives the integer nearest to the value
\* times 100; 10.005 gives 1001.
C18_PressureScaling ==
    (record # NoRecord /\ row.p # NaN) =>
        /\ record.p[1] = "int"
        /\ NearestHundredths(record.p[2], row.p[2])
        /\ row.p = Num(10005) => record.p = JsonInt(1001)
        /\ row.p = Num(10000) => record.p = JsonInt(1000)

\* C18 witness: the raw pressure 10.005 gave 1001.
C18_Witness ==
    /\ record # NoRecord
    /\ row.p = Num(10005)
    /\ record.p = JsonInt(1001)

\* ------------------------------------------------ the store on its own
\* texts that strptime("%Y%m%d%H%M%S") rejects: minute 70, second 90,
\* thirteen characters, month 13
CorruptTexts ==
    {SubSeq(strftime(1), 1, 10) \o <<7, 0, 0, 0>>,
     SubSeq(strftime(1), 1, 10) \o <<0, 0, 9, 0>>,
     SubSeq(strftime(1), 1, 13),
     <<2, 0, 2, 4, 1, 3, 0, 1, 0, 0, 0, 0, 0, 0>>}

\* what the row of key 'last_timestamp' may hold when a call is made
StoredTexts == {<<>>} \cup {strftime(t) : t \in Ts} \cup CorruptTexts

InitStore ==
    /\ remote = [f \in Names |-> NoFile]
    /\ envSteps = 0
    /\ pc = "store"
    /\ ftp = FALSE
    /\ raising = FALSE
    /\ mlsd = <<>>
    /\ remote_files = <<>>
    /\ db \in StoredTexts
    /\ last_timestamp = NoTs
    /\ files_to_process = <<>>
    /\ idx = 1
    /\ fetched = NoFetch
    /\ measurements = <<>>
    /\ newest_timestamp = NoTs
    /\ response = NoResponse
    /\ ok = FALSE
    /\ delivered = {}
    /\ reads = 0
    /\ preCycle = NoTs
    /\ lastAccepted = NoTs
    /\ thisCycle = EmptyCycle
    /\ lastCycle = EmptyCycle
    /\ unreleased = FALSE
    /\ calls = <<>>
    /\ row = NoRow
    /\ record = NoRecord

\* set_last_timestamp(DB_PATH, newest_timestamp)
StoreSet ==
    /\ pc = "store"
    /\ Len(calls) < MaxCalls
    /\ \E t \in Ts :
          /\ newest_timestamp' = t
          /\ db' = set_last_timestamp(db, t)
          /\ calls' = Append(calls, <<"set", t>>)
    /\ UNCHANGED <<pc, ftp, raising, mlsd, remote_files, last_timestamp,
                   files_to_process, idx, fetched, measurements, response, ok>>
    /\ UNCHANGED envVars
    /\ UNCHANGED histVars
    /\ UNCHANGED <<unreleased, row, record>>

\* last_timestamp = get_last_timestamp(DB_PATH); raising tells whether the
\* call raised
StoreGet ==
    /\ pc = "store"
    /\ Len(calls) < MaxCalls
    /\ IF get_last_timestamp_raises(db)
          THEN /\ raising' = TRUE
               /\ UNCHANGED last_timestamp
          ELSE /\ raising' = FALSE
               /\ last_timestamp' = get_last_timestamp(db)
    /\ calls' = Append(calls, <<"get", NoTs>>)
    /\ UNCHANGED <<pc, ftp, mlsd, remote_files, db, files_to_process, idx>>
    /\ UNCHANGED envVars
    /\ UNCHANGED loopVars
    /\ UNCHANGED histVars
    /\ UNCHANGED <<unreleased, row, record>>

NextStore ==
    \/ StoreSet
    \/ StoreGet

SpecStore == InitStore /\ [][NextStore]_vars

\* the last call made was a get
GetReturned == calls # <<>> /\ calls[Len(calls)][1] = "get"

\* the argument of the last set made, NoTs when none was
RECURSIVE LastSet(_)
LastSet(cs) ==
    IF cs = <<>> THEN NoTs
    ELSE IF cs[Len(cs)][1] = "set" THEN cs[Len(cs)][2]
    ELSE LastSet(SubSeq(cs, 1, Len(cs) - 1))

\* C13: a get on a store whose row is missing, or holds a text that does
\* not parse as YYYYMMDDHHMMSS, returns absent and does not raise.
C13_CorruptReadsAbsent ==
    (GetReturned /\ (db = <<>> \/ db \in CorruptTexts)) =>
        (~raising /\ last_timestamp = NoTs)

\* C15: a get that follows one or more sets returns, without raising, the
\* timestamp of the last set, whatever the store held before and whatever
\* the earlier sets wrote; after a set the row holds that timestamp's
\* 14-digit text and nothing else.
C15_SetGetRoundTrip ==
    /\ (LastSet(calls) # NoTs) =>
          (/\ db = strftime(LastSet(calls))
           /\ Len(db) = 14
           /\ GetReturned => (~raising /\ last_timestamp = LastSet(calls)))
    /\ (calls # <<>> /\ calls[Len(calls)][1] = "set") =>
          newest_timestamp = calls[Len(calls)][2]

\* C15 witness: a set of the newest timestamp, then a set of the oldest,
\* then a get that returned the oldest.
C15_Witness ==
    /\ calls = <<<<"set", MaxTs>>, <<"set", 1>>, <<"get", NoTs>>>>
    /\ last_timestamp = 1
    /\ ~raising
    /\ db = strftime(1)

\* C19: the delivery is never called with an empty batch; when retrieval
\* or extraction of a file fails, the file has no row, or no row is newer
\* than the watermark, the iteration ends without a delivery call and
\* without a write of the watermark.
C19_NoEmptyDelivery ==
    /\ [](pc \in {"send", "sent"} => measurements # <<>>)
    /\ [][(/\ pc = "loop"
           /\ pc' \in {"loop", "send"}
           /\ \/ fetched'.status # "ok"
              \/ fetched'.rows = <<>>
              \/ /\ last_timestamp # NoTs
                 /\ \A i \in DOMAIN fetched'.rows :
                        fetched'.rows[i] <= last_timestamp) =>
            (/\ pc' = "loop"
             /\ measurements' = <<>>
             /\ response' = NoResponse
             /\ UNCHANGED <<db, last_timestamp, delivered>>)]_vars
    /\ [][(delivered' # delivered \/ response' \notin {response, NoResponse}) =>
            (pc = "send" /\ measurements # <<>>)]_vars

\* C19 witness: the second file of a cycle was read in full and none of
\* its rows was newer than the watermark; no request was made for it.
C19_Witness ==
    /\ pc = "loop"
    /\ idx = 3
    /\ fetched.status = "ok"
    /\ fetched.rows # <<>>
    /\ fetched.wm # NoTs
    /\ \A i \in DOMAIN fetched.rows : fetched.rows[i] <= fetched.wm
    /\ measurements = <<>>
    /\ response = NoResponse
    /\ Stored = fetched.wm

\* C20: no row is in two accepted batches: a batch that is accepted holds
\* no row that an earlier accepted batch held, and outside the step between
\* an accepted delivery and its watermark write every accepted row has a
\* timestamp less than or equal to both copies of the watermark.
C20_NoRedelivery ==
    /\ [][(pc = "send" /\ ok') =>
            (\A t \in Range(measurements) : <<fetched.file, t>> \notin delivered)]_vars
    /\ [](pc # "sent" =>
            \A e \in delivered : e[2] <= Stored)
    /\ [](pc \in {"loop", "send"} =>
            \A e \in delivered : e[2] <= last_timestamp)
    /\ [](pc \in {"send", "sent"} =>
            \A e \in delivered :
                (e[1] = fetched.file /\ pc = "send") =>
                    e[2] \notin Range(measurements))

\* C20 witness: a file with a row that was accepted in an earlier cycle is
\* extracted again after it grew; the batch holds only the new row.
C20_Witness ==
    /\ pc = "send"
    /\ preCycle # NoTs
    /\ Len(fetched.rows) = 2
    /\ <<fetched.file, fetched.rows[1]>> \in delivered
    /\ measurements = <<fetched.rows[2]>>
    /\ <<fetched.file, fetched.rows[2]>> \notin delivered

\* ------------------------------------------- one cycle on any MLSD response
\* what a server may send: any sequence of entries <<name, modify>>, in any
\* order, a name possibly more than once, entries that are no .txt file
MlsdEntries == (Names \X OptTs) \cup {<<OtherEntry, NoTs>>}

InitSel ==
    /\ remote = [f \in Names |-> [present |-> TRUE, mtime |-> NoTs,
                                  rows |-> <<MaxTs, 1>>]]
    /\ envSteps = 0
    /\ pc = "list"
    /\ ftp = TRUE
    /\ raising = FALSE
    /\ mlsd \in SeqsUpTo(MlsdEntries, MaxList)
    /\ remote_files = <<>>
    /\ db \in {<<>>} \cup {strftime(t) : t \in Ts}
    /\ last_timestamp = NoTs
    /\ files_to_process = <<>>
    /\ idx = 1
    /\ fetched = NoFetch
    /\ measurements = <<>>
    /\ newest_timestamp = NoTs
    /\ response = NoResponse
    /\ ok = FALSE
    /\ delivered = {}
    /\ reads = 0
    /\ preCycle = get_last_timestamp(db)
    /\ lastAccepted = NoTs
    /\ thisCycle = EmptyCycle
    /\ lastCycle = EmptyCycle
    /\ unreleased = FALSE
    /\ calls = <<>>
    /\ row = NoRow
    /\ record = NoRecord

\* remote_files = list_remote_txt_files_with_mtime(ftp) on the given response
ListGiven ==
    /\ pc = "list"
    /\ UNCHANGED auxVars
    /\ remote_files' = list_remote_txt_files_with_mtime(mlsd)
    /\ pc' = "get_last"
    /\ UNCHANGED <<ftp, raising, mlsd, db, last_timestamp, files_to_process, idx>>
    /\ UNCHANGED envVars
    /\ UNCHANGED loopVars
    /\ UNCHANGED histVars

NextSel ==
    \/ ListGiven
    \/ GetLast
    \/ Select
    \/ ProcessRawFile
    \/ Send
    \/ SkipNotOk
    \/ Advance
    \/ EndLoop

SpecSel == InitSel /\ [][NextSel]_vars


\* whether entry e of a listing is selected under watermark lt
Qualifies(e, lt) == e[2] # NoTs /\ (lt = NoTs \/ e[2] > lt)

\* C7: select_files_to_process returns a file if and only if a descriptor of
\* that name has a modification time and the watermark is absent or that
\* time is strictly greater than the watermark; the call changes neither the
\* watermark (in memory or stored) nor its inputs.
C7_SelectionCorrect ==
    /\ [](pc \in {"loop", "send", "sent", "quit"} =>
            /\ Range(files_to_process) \subseteq Names
            /\ \A n \in Names :
                  n \in Range(files_to_process) <=>
                      \E i \in DOMAIN remote_files :
                          /\ remote_files[i][1] = n
                          /\ remote_files[i][2] # NoTs
                          /\ (thisCycle.wsel = NoTs \/
                              remote_files[i][2] > thisCycle.wsel))
    /\ [][pc = "select" =>
            (/\ thisCycle'.wsel = last_timestamp
             /\ UNCHANGED <<db, last_timestamp, remote_files, mlsd, remote>>)]_vars

\* C7 witness: files with modification times none, t1 and t2 and the
\* watermark at t1: only the file with t2 is selected.
C7_Witness ==
    /\ pc = "loop"
    /\ idx = 1
    /\ remote_files = <<<<1, NoTs>>, <<2, 1>>, <<3, 2>>>>
    /\ thisCycle.wsel = 1
    /\ files_to_process = <<3>>

\* C8 as stated: for every listing, a name occurring more than once
\* included, the selected list is in ascending order of filename and holds
\* no filename twice.
C8_SortedNoDuplicates ==
    pc \in {"loop", "send", "sent", "quit"} => StrictlyAscending(files_to_process)

\* C8 amended: the selected list is in ascending order of filename and
\* holds a filename once for each qualifying descriptor of that name (so no
\* filename twice when the listing names each file once); the loop handles
\* the entries of the list in that order, one entry per iteration, and ends
\* only when the list is exhausted.
C8_SortedOncePerDescriptor ==
    /\ [](pc \in {"loop", "send", "sent", "quit"} =>
            /\ Ascending(files_to_process)
            /\ \A n \in Names :
                  Count(files_to_process, n) =
                      Cardinality({i \in DOMAIN mlsd :
                                      mlsd[i][1] = n /\ Qualifies(mlsd[i], thisCycle.wsel)})
            /\ (\A i, j \in DOMAIN mlsd : i # j => mlsd[i][1] # mlsd[j][1]) =>
                  StrictlyAscending(files_to_process))
    /\ [][(pc \in {"loop", "send", "sent"}) =>
            (/\ files_to_process' = files_to_process
             /\ (pc = "loop" /\ pc' \in {"loop", "send"}) =>
                   fetched'.file = files_to_process[idx]
             /\ idx' = IF pc' = "loop" THEN idx + 1 ELSE idx
             /\ pc' = "quit" => idx = Len(files_to_process) + 1)]_vars

\* C8 witness: a listing in non-alphabetical order that names file 1 twice
\* was selected as <<1, 1, 2>>, and the loop has handled all three entries.
C8_Witness ==
    /\ pc = "quit"
    /\ mlsd = <<<<2, 1>>, <<1, 2>>, <<1, 3>>>>
    /\ files_to_process = <<1, 1, 2>>
    /\ idx = 4

=============================================================================
